---- MODULE Spec2Model ----
(***************************************************************************)
(* Model of gitx, a stacked-diff tool: commits of the primary branch are   *)
(* mirrored into pull requests.  The state is the local commit graph, the  *)
(* local branches, the branches on origin, the git notes under             *)
(* refs/notes/gitx-metadata, the calls received by the review gateway and  *)
(* the position of the running `gitx diff` command.                        *)
(*                                                                         *)
(* Strings that the code inspects character by character (commit messages, *)
(* branch names) are sequences of one-character strings.  Object ids are   *)
(* positive integers allocated in creation order; 0 stands for "none".     *)
(***************************************************************************)
EXTENDS Integers, Sequences, FiniteSets, TLC

\* ------------------------------------------------------------------ bounds
MaxCommits == 2
MaxIncr == 2
MaxHist == 11
MaxDecodeHist == 4
MaxTail == 3
MaxOver == 2
MaxRuns == 2

\* --------------------------------------------------------- program constants
FullWindow == 10
LatestWindow == 1
MaxTitleLen == 50
FirstPrNumber == 1

\* ------------------------------------------------------------------ strings
MAIN == <<"m", "a", "i", "n">>
MASTER == <<"m", "a", "s", "t", "e", "r">>
DEV == <<"d", "e", "v">>
GITX_PREFIX == <<"g", "i", "t", "x", "/">>
UNTITLED == <<"u", "n", "t", "i", "t", "l", "e", "d">>
UNKNOWN == <<"u", "n", "k", "n", "o", "w", "n">>

UpperSeq == <<"A", "B", "C", "D", "E", "F", "G", "H", "I", "J", "K", "L", "M",
              "N", "O", "P", "Q", "R", "S", "T", "U", "V", "W", "X", "Y", "Z">>
LowerSeq == <<"a", "b", "c", "d", "e", "f", "g", "h", "i", "j", "k", "l", "m",
              "n", "o", "p", "q", "r", "s", "t", "u", "v", "w", "x", "y", "z">>
DigitSeq == <<"0", "1", "2", "3", "4", "5", "6", "7", "8", "9">>
Whitespace == {" ", "\t", "\n", "\r"}

Range(s) == {s[i] : i \in DOMAIN s}

ToLower(c) ==
    IF c \in Range(UpperSeq)
    THEN LowerSeq[CHOOSE i \in DOMAIN UpperSeq : UpperSeq[i] = c]
    ELSE c

\* str::lines().next(): the text before the first line break
RECURSIVE FirstLine(_)
FirstLine(s) ==
    IF s = <<>> \/ Head(s) = "\n" THEN <<>>
    ELSE <<Head(s)>> \o FirstLine(Tail(s))

RECURSIVE TrimLeft(_, _)
TrimLeft(s, cs) ==
    IF s # <<>> /\ Head(s) \in cs THEN TrimLeft(Tail(s), cs) ELSE s

RECURSIVE TrimRight(_, _)
TrimRight(s, cs) ==
    IF s # <<>> /\ s[Len(s)] \in cs
    THEN TrimRight(SubSeq(s, 1, Len(s) - 1), cs)
    ELSE s

Trim(s, cs) == TrimRight(TrimLeft(s, cs), cs)

MapChars(s) ==
    [i \in DOMAIN s |->
        IF ToLower(s[i]) \in Range(LowerSeq) \cup Range(DigitSeq)
        THEN ToLower(s[i]) ELSE "-"]

HasDoubleHyphen(s) == \E i \in 1..(Len(s) - 1) : s[i] = "-" /\ s[i + 1] = "-"

\* one pass of String::replace("--", "-"): leftmost non-overlapping matches
RECURSIVE ReplaceDoubleHyphen(_)
ReplaceDoubleHyphen(s) ==
    IF Len(s) < 2 THEN s
    ELSE IF s[1] = "-" /\ s[2] = "-"
         THEN <<"-">> \o ReplaceDoubleHyphen(SubSeq(s, 3, Len(s)))
         ELSE <<s[1]>> \o ReplaceDoubleHyphen(Tail(s))

RECURSIVE CollapseHyphens(_)
CollapseHyphens(s) ==
    IF HasDoubleHyphen(s) THEN CollapseHyphens(ReplaceDoubleHyphen(s)) ELSE s

sanitize_commit_title_cut_only(commit_message) ==
    LET title == Trim(FirstLine(commit_message), Whitespace)
        collapsed == CollapseHyphens(MapChars(title))
        trimmed == Trim(collapsed, {"-"})
        limited == IF Len(trimmed) > MaxTitleLen
                   THEN SubSeq(trimmed, 1, MaxTitleLen)
                   ELSE trimmed
    IN  IF limited = <<>> THEN UNTITLED ELSE limited

sanitize_commit_title(commit_message) ==
    LET title == Trim(FirstLine(commit_message), Whitespace)
        collapsed == CollapseHyphens(MapChars(title))
        trimmed == Trim(collapsed, {"-"})
        limited == IF Len(trimmed) > MaxTitleLen
                   THEN Trim(SubSeq(trimmed, 1, MaxTitleLen), {"-"})
                   ELSE trimmed
    IN  IF limited = <<>> THEN UNTITLED ELSE limited

generate_branch_name(username, commit_message) ==
    GITX_PREFIX \o username \o <<"/">> \o sanitize_commit_title(commit_message)

\* ------------------------------------------------------------ input domains
USER == <<"a", "l">>
Msgs == { <<"B", "!">> }

\* ---------------------------------------------------------------- the state
VARIABLES
    procs,          \* concurrent local-only diff runs: position and locals
    userName,       \* git config user.name, <<>> when it is not set
    headRef,        \* name of the branch HEAD is attached to
    rewriteNotes,   \* git config notes.rewriteRef covers the gitx notes ref
    commits,        \* object store: commits[oid] = [parent, message, ...]
    branches,       \* local refs/heads: name -> oid
    remote,         \* refs/heads on origin: name -> oid
    notes,          \* refs/notes/gitx-metadata: oid -> CommitMetadata
    createCalls,    \* create_pr calls the gateway has answered
    updateCalls,    \* update_pr calls the gateway has answered
    next_pr_number, \* the gateway's PR counter
    merged,         \* numbers of the PRs the gateway reports as merged
    pending,        \* selected updates of the running diff, not yet applied
    run,            \* the current (or last) diff invocation
    last            \* outcome of the last tool operation

vars == <<procs, userName, headRef, rewriteNotes, commits, branches, remote, notes, createCalls,
          updateCalls, next_pr_number, merged, pending, run, last>>

NoRun == [active |-> FALSE, github |-> FALSE, all |-> FALSE, ok |-> FALSE,
          found |-> <<>>, full |-> FALSE, injected |-> FALSE, retry |-> 0,
          again |-> FALSE]
NoLast == [op |-> "none", commit |-> 0, stage |-> "none", injected |-> FALSE,
           had |-> FALSE, trace |-> <<>>, creds |-> TRUE, new_branches |-> 0,
           incremental_updates |-> 0, errors |-> 0, exit |-> "none"]
UserCommits == {oid \in DOMAIN commits : commits[oid].kind = "user"}
IncrCommits == {oid \in DOMAIN commits : commits[oid].kind = "incremental"}
INCR_PREFIX == <<"I", "n", "c", "r", "e", "m", "e", "n", "t", "a", "l", " ",
                 "u", "p", "d", "a", "t", "e", " ", "t", "o", ":", " ">>


\* ------------------------------------------------------- maps with a domain
Put_alone(f, k, v) == [x \in {k} |-> v]
Put(f, k, v) == [x \in DOMAIN f \cup {k} |-> IF x = k THEN v ELSE f[x]]
Remove_nothing(f, k) == f
Remove(f, k) == [x \in DOMAIN f \ {k} |-> f[x]]

\* ------------------------------------------------ metadata.rs: CommitMetadata
\* Utc::now(): the clock reads later than every time already stored
Now(ns) ==
    LET stored == {ns[c].last_updated : c \in DOMAIN ns}
    IN  IF stored = {} THEN 1
        ELSE 1 + CHOOSE t \in stored : \A u \in stored : u <= t

new_branch_created(pr_branch_name, original_commit_id, now) ==
    [pr_branch_name |-> pr_branch_name,
     github_pr_number |-> 0,
     status |-> "BranchCreated",
     created_at |-> now,
     last_updated |-> now,
     original_commit_id |-> original_commit_id,
     incremental_commits |-> <<>>]

with_pr_number_merged(m, pr_number, now) ==
    [m EXCEPT !.github_pr_number = pr_number, !.status = "PRMerged",
              !.last_updated = now]

with_pr_number_only(m, pr_number, now) ==
    [m EXCEPT !.github_pr_number = pr_number, !.last_updated = now]

with_pr_number_status_only(m, pr_number, now) ==
    [m EXCEPT !.status = "PRCreated", !.last_updated = now]

with_pr_number(m, pr_number, now) ==
    [m EXCEPT !.github_pr_number = pr_number, !.status = "PRCreated",
              !.last_updated = now]

add_incremental_commit_reanchor(m, commit_id, msg, commit_type, now) ==
    [m EXCEPT !.incremental_commits =
                  Append(@, [commit_id |-> commit_id, message |-> msg,
                             commit_type |-> commit_type,
                             created_at |-> now]),
              !.original_commit_id = commit_id,
              !.last_updated = now]

add_incremental_commit_prepend(m, commit_id, msg, commit_type, now) ==
    [m EXCEPT !.incremental_commits =
                  <<[commit_id |-> commit_id, message |-> msg,
                     commit_type |-> commit_type,
                     created_at |-> now]>> \o @,
              !.last_updated = now]

add_incremental_commit(m, commit_id, msg, commit_type, now) ==
    [m EXCEPT !.incremental_commits =
                  Append(@, [commit_id |-> commit_id, message |-> msg,
                             commit_type |-> commit_type,
                             created_at |-> now]),
              !.last_updated = now]

is_commit_changed_or_fresh(m, current_commit_id) ==
    m.original_commit_id # current_commit_id \/ m.incremental_commits = <<>>

is_commit_changed(m, current_commit_id) ==
    m.original_commit_id # current_commit_id

\* a note whose text serde_json cannot decode as CommitMetadata
MALFORMED == [malformed |-> TRUE]

\* find_note(..) then serde_json::from_str(content)?: Ok(None) without a note,
\* Err when the note does not decode, Ok(Some(metadata)) otherwise
get_commit_metadata(ns, oid) ==
    IF oid \notin DOMAIN ns THEN [ok |-> TRUE, some |-> FALSE]
    ELSE IF "malformed" \in DOMAIN ns[oid] THEN [ok |-> FALSE, some |-> FALSE]
    ELSE [ok |-> TRUE, some |-> TRUE]

has_pr_metadata_never(ns, oid) == FALSE

\* Ok(Some(_)) => true, anything else => false
has_pr_metadata(ns, oid) ==
    get_commit_metadata(ns, oid).ok /\ get_commit_metadata(ns, oid).some

store_commit_metadata_forced(ns, oid) == TRUE

\* repo.note(.., force = false): refuses to replace an existing note
store_commit_metadata_ok(ns, oid) == oid \notin DOMAIN ns

\* get_all_pr_status(): the listing is not implemented and is always empty
get_all_pr_status(ns) == <<>>

\* ---------------------------------------------------------- the commit graph
ParentOf(oid) == commits[oid].parent

RECURSIVE IsAncestor(_, _)
IsAncestor(a, d) ==
    IF d = 0 THEN FALSE
    ELSE IF a = d THEN TRUE
    ELSE IsAncestor(a, ParentOf(d))

\* revwalk.push(head) followed by take(n), on a linear history
RECURSIVE Walk(_, _)
Walk(oid, n) ==
    IF oid = 0 \/ n = 0 THEN <<>>
    ELSE <<oid>> \o Walk(ParentOf(oid), n - 1)

\* find_reference("refs/heads/main").or_else(find_reference("refs/heads/master"))
PrimaryRef(brs) ==
    IF MAIN \in DOMAIN brs THEN MAIN
    ELSE IF MASTER \in DOMAIN brs THEN MASTER
    ELSE <<>>

\* --------------------------------------------------- git_ops.rs: the resolver
determine_base_branch_for_any_record(oid, ns, brs) ==
    IF ParentOf(oid) # 0 /\ ParentOf(oid) \in DOMAIN ns
    THEN ns[ParentOf(oid)].pr_branch_name
    ELSE IF PrimaryRef(brs) # <<>> THEN PrimaryRef(brs) ELSE MAIN

determine_base_branch_for_commit(oid, ns, brs) ==
    IF /\ ParentOf(oid) # 0
       /\ has_pr_metadata(ns, ParentOf(oid))
       /\ ns[ParentOf(oid)].github_pr_number # 0
    THEN ns[ParentOf(oid)].pr_branch_name
    ELSE IF PrimaryRef(brs) # <<>> THEN PrimaryRef(brs) ELSE MAIN

\* ------------------------------------------------- git_ops.rs: the classifier
\* get_git_username().unwrap_or_else(|_| "unknown")
get_git_username == IF userName = <<>> THEN UNKNOWN ELSE userName

NewCommit(oid) ==
    [kind |-> "NewCommit",
     id |-> oid,
     message |-> commits[oid].message,
     potential_branch_name |->
         generate_branch_name(get_git_username, commits[oid].message)]

IncrementalUpdate(oid, m) ==
    [kind |-> "IncrementalUpdate",
     original_oid |-> oid,
     updated_oid |-> oid,
     metadata |-> m]

ActionCommit(a) == IF a.kind = "NewCommit" THEN a.id ELSE a.updated_oid

ClassifyCommit_tracked_only(oid, ns) ==
    IF oid \in DOMAIN ns /\ is_commit_changed(ns[oid], oid)
    THEN <<IncrementalUpdate(oid, ns[oid])>>
    ELSE <<>>

\* the body of the loop over the walk, for one commit
ClassifyCommit(oid, ns) ==
    IF get_commit_metadata(ns, oid).some
    THEN IF is_commit_changed(ns[oid], oid)
         THEN <<IncrementalUpdate(oid, ns[oid])>>
         ELSE <<>>
    ELSE <<NewCommit(oid)>>

RECURSIVE ClassifyWalk(_, _)
ClassifyWalk(walk, ns) ==
    IF walk = <<>> THEN <<>>
    ELSE ClassifyCommit(Head(walk), ns) \o ClassifyWalk(Tail(walk), ns)

commit_limit_wider(latest_only) ==
    IF latest_only THEN LatestWindow ELSE FullWindow + 1

commit_limit(latest_only) == IF latest_only THEN LatestWindow ELSE FullWindow

Window(latest_only, brs) ==
    IF PrimaryRef(brs) = <<>> THEN <<>>
    ELSE Walk(brs[PrimaryRef(brs)], commit_limit(latest_only))

\* get_commit_metadata(&oid).map_err(..)? inside the loop: the first commit
\* of the window whose note does not decode ends the walk with that error
DecodeFails(walk, ns) ==
    \E i \in DOMAIN walk : ~get_commit_metadata(ns, walk[i]).ok

get_commits_needing_processing_impl(latest_only, ns, brs) ==
    IF PrimaryRef(brs) = <<>> \/ DecodeFails(Window(latest_only, brs), ns)
    THEN [ok |-> FALSE, updates |-> <<>>]
    ELSE [ok |-> TRUE, updates |-> ClassifyWalk(Window(latest_only, brs), ns)]


\* ------------------------------------------------- git, as the user drives it
HeadOid == IF headRef \in DOMAIN branches THEN branches[headRef] ELSE 0

UserCommitObject(parent, msg, amends) ==
    [kind |-> "user",
     parent |-> parent,
     message |-> msg,
     tree |-> Len(commits) + 1,
     amends |-> amends,
     amends_tracked |-> amends # 0 /\ amends \in DOMAIN notes,
     amends_pr |-> IF amends # 0 /\ amends \in DOMAIN notes
                   THEN notes[amends].github_pr_number ELSE 0]

\* `gitx commit -m msg`: a new commit on top of HEAD
GitCommit(msg) ==
    /\ pending = <<>>
    /\ Cardinality(UserCommits) < MaxCommits
    /\ commits' = Append(commits, UserCommitObject(HeadOid, msg, 0))
    /\ branches' = Put(branches, headRef, Len(commits) + 1)
    /\ run' = NoRun
    /\ last' = NoLast
    /\ UNCHANGED <<procs, userName, headRef, rewriteNotes, remote, notes, createCalls,
                   updateCalls, next_pr_number, merged, pending>>

\* `gitx commit --amend`, with -m msg or keeping the message (--no-edit):
\* HEAD's commit is replaced by a new object with the same parent; git copies
\* the note only when notes.rewriteRef names the notes ref
GitAmend_rewrites(msg) ==
    /\ pending = <<>>
    /\ HeadOid # 0
    /\ msg \in Msgs \cup {commits[HeadOid].message}
    /\ Cardinality(UserCommits) < MaxCommits
    /\ commits' = Append(commits,
                         UserCommitObject(ParentOf(HeadOid), msg, HeadOid))
    /\ branches' = Put(branches, headRef, Len(commits) + 1)
    /\ notes' = IF HeadOid \in DOMAIN notes
                THEN Put(notes, Len(commits) + 1, notes[HeadOid])
                ELSE notes
    /\ run' = NoRun
    /\ last' = NoLast
    /\ UNCHANGED <<procs, userName, headRef, rewriteNotes, remote, createCalls,
                   updateCalls, next_pr_number, merged, pending>>

GitAmend(msg) ==
    /\ pending = <<>>
    /\ HeadOid # 0
    /\ msg \in Msgs \cup {commits[HeadOid].message}
    /\ Cardinality(UserCommits) < MaxCommits
    /\ commits' = Append(commits,
                         UserCommitObject(ParentOf(HeadOid), msg, HeadOid))
    /\ branches' = Put(branches, headRef, Len(commits) + 1)
    /\ notes' = IF rewriteNotes /\ HeadOid \in DOMAIN notes
                THEN Put(notes, Len(commits) + 1, notes[HeadOid])
                ELSE notes
    /\ run' = NoRun
    /\ last' = NoLast
    /\ UNCHANGED <<procs, userName, headRef, rewriteNotes, remote, createCalls,
                   updateCalls, next_pr_number, merged, pending>>

\* ------------------------------------------------------ the `diff` command
\* MultiSelect: any sub-list of the offered updates, in the offered order
RECURSIVE SubLists(_)
SubLists(s) ==
    IF s = <<>> THEN {<<>>}
    ELSE LET rest == SubLists(Tail(s))
         IN  rest \cup {<<Head(s)>> \o r : r \in rest}

Selections(all, updates) ==
    IF all /\ Len(updates) > 1 THEN SubLists(updates) ELSE {updates}

\* what a classification returned: the kind and the commit of each update
Found(updates) ==
    [i \in DOMAIN updates |-> <<updates[i].kind, ActionCommit(updates[i])>>]

\* the commit whose remote-mode create a collaborator has just failed
RetryOf ==
    IF last.op = "create_remote" /\ last.injected
    THEN last.commit ELSE 0

\* the last thing the tool did was to classify the same window, and nothing
\* has been written since
Unwritten(all) ==
    run.active /\ run.ok /\ run.all = all /\ pending = <<>> /\ last.op = "none"

\* get_commits_needing_processing / get_latest_commit_needing_processing,
\* called on their own
ClassifyOnly(latest_only) ==
    /\ pending = <<>>
    /\ LET res == get_commits_needing_processing_impl(latest_only, notes,
                                                      branches)
       IN  run' = [active |-> TRUE,
                   github |-> FALSE,
                   all |-> ~latest_only,
                   ok |-> res.ok,
                   found |-> Found(res.updates),
                   full |-> FALSE,
                   injected |-> FALSE,
                   retry |-> 0,
                   again |-> Unwritten(~latest_only) /\ res.ok]
    /\ last' = NoLast
    /\ UNCHANGED <<procs, userName, headRef, rewriteNotes, commits, branches, remote, notes,
                   createCalls, updateCalls, next_pr_number, merged, pending>>

\* handle_diff up to the start of its loop: classify, then select
Diff(github, all) ==
    /\ pending = <<>>
    /\ LET res == get_commits_needing_processing_impl(~all, notes, branches)
       IN  \E sel \in Selections(all, res.updates) :
             /\ pending' = sel
             /\ run' = [active |-> TRUE,
                        github |-> github,
                        all |-> all,
                        ok |-> res.ok,
                        found |-> Found(res.updates),
                        full |-> sel = res.updates,
                        injected |-> FALSE,
                        retry |-> RetryOf,
                        again |-> Unwritten(all) /\ res.ok]
    /\ last' = NoLast
    /\ UNCHANGED <<procs, userName, headRef, rewriteNotes, commits, branches, remote, notes,
                   createCalls, updateCalls, next_pr_number, merged>>


\* ------------------------------------------------------ collaborators' calls
\* `git push -u origin <name>`: rejected unless it fast-forwards origin
PushOk(name, brs, rem) ==
    name \notin DOMAIN rem \/ IsAncestor(rem[name], brs[name])

\* the gateway numbers pull requests consecutively
CreatePrCall(oid, name, base, number) ==
    [commit |-> oid, branch |-> name, base |-> base, number |-> number]

IncrementalCommitObject(tip, updated_oid) ==
    [kind |-> "incremental",
     parent |-> tip,
     message |-> INCR_PREFIX \o FirstLine(commits[updated_oid].message),
     tree |-> commits[updated_oid].tree,
     amends |-> 0,
     amends_tracked |-> FALSE,
     amends_pr |-> 0]

\* --------------------------------------- git_ops.rs: the lifecycle handlers
\* Each handler is a function of the state it reads and of the step `f` at
\* which a collaborator fails ("none": no failure); it returns the step that
\* stopped it ("done": none) and the state it leaves.

\* repo.branch(name, ..): git refuses a reference name that holds a blank, a
\* control character or one of ~ ^ : \ ? [ *
InvalidRefChars == Whitespace \cup {"~", "^", ":", "\\", "?", "[", "*"}
is_valid_ref_name(name) == Range(name) \cap InvalidRefChars = {}

create_pr_branch_needs_client(a, f, brs, ns) ==
    [stage |-> "client", branches |-> brs, notes |-> ns, written |-> <<>>]

create_pr_branch(a, f, brs, ns) ==
    LET name == a.potential_branch_name
        valid == is_valid_ref_name(name)
        brs1 == IF name \in DOMAIN brs \/ ~valid THEN brs
                ELSE Put(brs, name, a.id)
        store == valid /\ ~has_pr_metadata(ns, a.id)
        failed == store /\ (f = "store" \/ ~store_commit_metadata_ok(ns, a.id))
    IN  [stage |-> IF ~valid THEN "branch"
                   ELSE IF failed THEN "store"
                   ELSE "done",
         branches |-> brs1,
         notes |-> IF store /\ ~failed
                   THEN Put(ns, a.id, new_branch_created(name, a.id, Now(ns)))
                   ELSE ns,
         written |-> IF store /\ ~failed
                     THEN <<new_branch_created(name, a.id, Now(ns))>>
                     ELSE <<>>]

create_transient_pr_branch_pr_first(a, f, brs, rem, ns, npr) ==
    LET name == a.potential_branch_name
        s1 == name \notin DOMAIN brs /\ is_valid_ref_name(name)
        brs1 == IF s1 THEN Put(brs, name, a.id) ELSE brs
        s2 == s1 /\ f # "push" /\ PushOk(name, brs1, rem)
        rem1 == IF s2 THEN Put(rem, name, a.id) ELSE rem
        commit_metadata == new_branch_created(name, a.id, Now(ns))
        s3 == s2 /\ f # "store" /\ store_commit_metadata_ok(ns, a.id)
        ns1 == IF s3 THEN Put(ns, a.id, commit_metadata) ELSE ns
        base_branch == determine_base_branch_for_commit(a.id, ns1, brs1)
        s4 == s3 /\ f # "create_pr"
        called == s1 /\ f # "create_pr"
        s5 == s4 /\ f # "update"
        with_pr == with_pr_number(commit_metadata, npr, Now(ns1))
        ns2 == IF s5 THEN Put(ns1, a.id, with_pr) ELSE ns1
        s6 == s5 /\ f # "delete"
    IN  [stage |-> IF ~s1 THEN "branch"
                   ELSE IF ~s2 THEN "push"
                   ELSE IF ~s3 THEN "store"
                   ELSE IF ~s4 THEN "create_pr"
                   ELSE IF ~s5 THEN "update"
                   ELSE IF ~s6 THEN "delete"
                   ELSE "done",
         branches |-> IF s6 THEN Remove(brs1, name) ELSE brs1,
         remote |-> rem1,
         notes |-> ns2,
         written |-> (IF s3 THEN <<commit_metadata>> ELSE <<>>)
                     \o (IF s5 THEN <<with_pr>> ELSE <<>>),
         calls |-> IF called THEN <<CreatePrCall(a.id, name, base_branch, npr)>>
                   ELSE <<>>,
         next_pr_number |-> IF called THEN npr + 1 ELSE npr]

create_transient_pr_branch_rollback(a, f, brs, rem, ns, npr) ==
    LET name == a.potential_branch_name
        s1 == name \notin DOMAIN brs /\ is_valid_ref_name(name)
        brs1 == IF s1 THEN Put(brs, name, a.id) ELSE brs
        s2 == s1 /\ f # "push" /\ PushOk(name, brs1, rem)
        rem1 == IF s2 THEN Put(rem, name, a.id) ELSE rem
        commit_metadata == new_branch_created(name, a.id, Now(ns))
        s3 == s2 /\ f # "store" /\ store_commit_metadata_ok(ns, a.id)
        ns1 == IF s3 THEN Put(ns, a.id, commit_metadata) ELSE ns
        base_branch == determine_base_branch_for_commit(a.id, ns1, brs1)
        s4 == s3 /\ f # "create_pr"
        s5 == s4 /\ f # "update"
        with_pr == with_pr_number(commit_metadata, npr, Now(ns1))
        ns2 == IF s5 THEN Put(ns1, a.id, with_pr) ELSE ns1
        s6 == s5 /\ f # "delete"
    IN  [stage |-> IF ~s1 THEN "branch"
                   ELSE IF ~s2 THEN "push"
                   ELSE IF ~s3 THEN "store"
                   ELSE IF ~s4 THEN "create_pr"
                   ELSE IF ~s5 THEN "update"
                   ELSE IF ~s6 THEN "delete"
                   ELSE "done",
         branches |-> IF s6 THEN Remove(brs1, name)
                      ELSE IF s1 THEN brs ELSE brs1,
         remote |-> rem1,
         notes |-> ns2,
         written |-> (IF s3 THEN <<commit_metadata>> ELSE <<>>)
                     \o (IF s5 THEN <<with_pr>> ELSE <<>>),
         calls |-> IF s4 THEN <<CreatePrCall(a.id, name, base_branch, npr)>>
                   ELSE <<>>,
         next_pr_number |-> IF s4 THEN npr + 1 ELSE npr]

create_transient_pr_branch_with_github_client(a, f, brs, rem, ns, npr) ==
    LET name == a.potential_branch_name
        s1 == name \notin DOMAIN brs /\ is_valid_ref_name(name)
        brs1 == IF s1 THEN Put(brs, name, a.id) ELSE brs
        s2 == s1 /\ f # "push" /\ PushOk(name, brs1, rem)
        rem1 == IF s2 THEN Put(rem, name, a.id) ELSE rem
        commit_metadata == new_branch_created(name, a.id, Now(ns))
        s3 == s2 /\ f # "store" /\ store_commit_metadata_ok(ns, a.id)
        ns1 == IF s3 THEN Put(ns, a.id, commit_metadata) ELSE ns
        base_branch == determine_base_branch_for_commit(a.id, ns1, brs1)
        s4 == s3 /\ f # "create_pr"
        s5 == s4 /\ f # "update"
        with_pr == with_pr_number(commit_metadata, npr, Now(ns1))
        ns2 == IF s5 THEN Put(ns1, a.id, with_pr) ELSE ns1
        s6 == s5 /\ f # "delete"
    IN  [stage |-> IF ~s1 THEN "branch"
                   ELSE IF ~s2 THEN "push"
                   ELSE IF ~s3 THEN "store"
                   ELSE IF ~s4 THEN "create_pr"
                   ELSE IF ~s5 THEN "update"
                   ELSE IF ~s6 THEN "delete"
                   ELSE "done",
         branches |-> IF s6 THEN Remove(brs1, name) ELSE brs1,
         remote |-> rem1,
         notes |-> ns2,
         written |-> (IF s3 THEN <<commit_metadata>> ELSE <<>>)
                     \o (IF s5 THEN <<with_pr>> ELSE <<>>),
         calls |-> IF s4 THEN <<CreatePrCall(a.id, name, base_branch, npr)>>
                   ELSE <<>>,
         next_pr_number |-> IF s4 THEN npr + 1 ELSE npr]

create_incremental_commit(a, f, brs, ns, new_oid) ==
    LET name == a.metadata.pr_branch_name
        s1 == name \in DOMAIN brs
        s2 == s1 /\ f # "update"
        updated_metadata ==
            add_incremental_commit(a.metadata, a.updated_oid,
                                   commits[a.updated_oid].message,
                                   "AmendedCommit", Now(ns))
    IN  [stage |-> IF ~s1 THEN "branch"
                   ELSE IF ~s2 THEN "update"
                   ELSE "done",
         objects |-> IF s1
                     THEN <<IncrementalCommitObject(brs[name], a.updated_oid)>>
                     ELSE <<>>,
         branches |-> IF s1 THEN Put(brs, name, new_oid) ELSE brs,
         notes |-> IF s2 THEN Put(ns, a.original_oid, updated_metadata)
                   ELSE ns,
         written |-> IF s2 THEN <<updated_metadata>> ELSE <<>>]

create_transient_incremental_commit_unguarded(a, f, brs, rem, ns, new_oid) ==
    LET name == a.metadata.pr_branch_name
        s0 == TRUE
        s1 == s0 /\ name \notin DOMAIN brs
        brs1 == IF s1 THEN Put(brs, name, new_oid) ELSE brs
        objs == IF s1
                THEN <<IncrementalCommitObject(a.updated_oid, a.updated_oid)>>
                ELSE <<>>
        s2 == s1 /\ f # "push"
                 /\ (name \notin DOMAIN rem
                     \/ IsAncestor(rem[name], a.updated_oid))
        rem1 == IF s2 THEN Put(rem, name, new_oid) ELSE rem
        updated_metadata ==
            add_incremental_commit(a.metadata, a.updated_oid,
                                   commits[a.updated_oid].message,
                                   "AmendedCommit", Now(ns))
        s3 == s2 /\ f # "update"
        ns1 == IF s3 THEN Put(ns, a.original_oid, updated_metadata) ELSE ns
        s4 == s3 /\ f # "update_pr"
        s5 == s4 /\ f # "delete"
    IN  [stage |-> IF ~s0 THEN "skipped"
                   ELSE IF ~s1 THEN "branch"
                   ELSE IF ~s2 THEN "push"
                   ELSE IF ~s3 THEN "update"
                   ELSE IF ~s4 THEN "update_pr"
                   ELSE IF ~s5 THEN "delete"
                   ELSE "done",
         objects |-> objs,
         branches |-> IF s5 THEN Remove(brs1, name) ELSE brs1,
         remote |-> rem1,
         notes |-> ns1,
         written |-> IF s3 THEN <<updated_metadata>> ELSE <<>>,
         calls |-> IF s4 THEN <<a.metadata.github_pr_number>> ELSE <<>>]

create_transient_incremental_commit_with_github_client(a, f, brs, rem, ns, new_oid) ==
    LET name == a.metadata.pr_branch_name
        s0 == a.metadata.github_pr_number # 0
        s1 == s0 /\ name \notin DOMAIN brs
        brs1 == IF s1 THEN Put(brs, name, new_oid) ELSE brs
        objs == IF s1
                THEN <<IncrementalCommitObject(a.updated_oid, a.updated_oid)>>
                ELSE <<>>
        s2 == s1 /\ f # "push"
                 /\ (name \notin DOMAIN rem
                     \/ IsAncestor(rem[name], a.updated_oid))
        rem1 == IF s2 THEN Put(rem, name, new_oid) ELSE rem
        updated_metadata ==
            add_incremental_commit(a.metadata, a.updated_oid,
                                   commits[a.updated_oid].message,
                                   "AmendedCommit", Now(ns))
        s3 == s2 /\ f # "update"
        ns1 == IF s3 THEN Put(ns, a.original_oid, updated_metadata) ELSE ns
        s4 == s3 /\ f # "update_pr"
        s5 == s4 /\ f # "delete"
    IN  [stage |-> IF ~s0 THEN "skipped"
                   ELSE IF ~s1 THEN "branch"
                   ELSE IF ~s2 THEN "push"
                   ELSE IF ~s3 THEN "update"
                   ELSE IF ~s4 THEN "update_pr"
                   ELSE IF ~s5 THEN "delete"
                   ELSE "done",
         objects |-> objs,
         branches |-> IF s5 THEN Remove(brs1, name) ELSE brs1,
         remote |-> rem1,
         notes |-> ns1,
         written |-> IF s3 THEN <<updated_metadata>> ELSE <<>>,
         calls |-> IF s4 THEN <<a.metadata.github_pr_number>> ELSE <<>>]


\* --------------------------------------------- handle_diff: one loop iteration
CreateFails == {"none", "client", "push", "store", "create_pr", "update",
                "delete"}
LocalCreateFails == {"none", "client", "store"}
IncrFails == {"none", "client", "push", "update", "update_pr", "delete"}
LocalIncrFails == {"none", "client", "update"}

\* the outcome of one operation on the record keyed by `oid`: the step that
\* stopped it, and the values the stored record went through, starting with
\* the one found (`had`) if there was one
\* a handler returned Ok: it ran to its end or skipped the update
Returned(stage) == stage \in {"done", "skipped"}

Count_every(n, ok) == n + 1

\* new_branches += 1 / incremental_updates += 1 in the Ok arms only
Count(n, ok) == IF ok THEN n + 1 ELSE n

\* handle_diff's loop after a handler has returned: its two counters, the
\* errors it has printed, and its result once the last update is done; a
\* handler called outside the command leaves them alone
Tally(op, stage) ==
    LET ok == Returned(stage)
        creates == op \in {"create_local", "create_remote"}
        updates == op \in {"incr_local", "incr_remote"}
    IN  [new_branches |-> IF creates THEN Count(last.new_branches, ok)
                          ELSE last.new_branches,
         incremental_updates |->
             IF updates THEN Count(last.incremental_updates, ok)
             ELSE last.incremental_updates,
         errors |-> IF (creates \/ updates) /\ ~ok THEN last.errors + 1
                    ELSE last.errors,
         exit |-> IF Len(pending) = 1 THEN "Ok" ELSE "none"]

Outcome(op, oid, stage, f, written) ==
    [op |-> op, commit |-> oid, stage |-> stage,
     injected |-> stage = f /\ f # "none",
     had |-> oid \in DOMAIN notes,
     trace |-> (IF oid \in DOMAIN notes THEN <<notes[oid]>> ELSE <<>>)
               \o written,
     creds |-> f # "client"]
    @@ Tally(op, stage)

\* the record of the run after one more update has been applied; a run that
\* is over is remembered only if every update was selected and no
\* collaborator failed
Injected(stage, f) ==
    LET r == [run EXCEPT !.injected = @ \/ (stage = f /\ f # "none")]
    IN  IF Len(pending) = 1 /\ (r.injected \/ ~r.full) THEN NoRun ELSE r

\* NewCommit with --github: GitHubClient::new(), then the transient protocol
ApplyNewRemote(f) ==
    /\ pending # <<>>
    /\ Head(pending).kind = "NewCommit"
    /\ run.github
    /\ LET a == Head(pending)
           r == create_transient_pr_branch_with_github_client(
                    a, f, branches, remote, notes, next_pr_number)
           stage == IF f = "client" THEN "client" ELSE r.stage
       IN  /\ branches' = IF f = "client" THEN branches ELSE r.branches
           /\ remote' = IF f = "client" THEN remote ELSE r.remote
           /\ notes' = IF f = "client" THEN notes ELSE r.notes
           /\ createCalls' = IF f = "client" THEN createCalls
                             ELSE createCalls \o r.calls
           /\ next_pr_number' = IF f = "client" THEN next_pr_number
                                ELSE r.next_pr_number
           /\ last' = Outcome("create_remote", a.id, stage, f,
                               IF f = "client" THEN <<>> ELSE r.written)
           /\ run' = Injected(stage, f)
    /\ pending' = Tail(pending)
    /\ UNCHANGED <<procs, userName, headRef, rewriteNotes, commits, updateCalls, merged>>

\* NewCommit without --github
ApplyNewLocal(f) ==
    /\ pending # <<>>
    /\ Head(pending).kind = "NewCommit"
    /\ ~run.github
    /\ LET a == Head(pending)
           r == create_pr_branch(a, f, branches, notes)
       IN  /\ branches' = r.branches
           /\ notes' = r.notes
           /\ last' = Outcome("create_local", a.id, r.stage, f, r.written)
           /\ run' = Injected(r.stage, f)
    /\ pending' = Tail(pending)
    /\ UNCHANGED <<procs, userName, headRef, rewriteNotes, commits, remote, createCalls,
                   updateCalls, next_pr_number, merged>>

\* IncrementalUpdate with --github
ApplyIncrRemote(f) ==
    /\ pending # <<>>
    /\ Head(pending).kind = "IncrementalUpdate"
    /\ run.github
    /\ Cardinality(IncrCommits) < MaxIncr
    /\ LET a == Head(pending)
           r == create_transient_incremental_commit_with_github_client(
                    a, f, branches, remote, notes, Len(commits) + 1)
           stage == IF f = "client" THEN "client" ELSE r.stage
       IN  /\ commits' = IF f = "client" THEN commits ELSE commits \o r.objects
           /\ branches' = IF f = "client" THEN branches ELSE r.branches
           /\ remote' = IF f = "client" THEN remote ELSE r.remote
           /\ notes' = IF f = "client" THEN notes ELSE r.notes
           /\ updateCalls' = IF f = "client" THEN updateCalls
                             ELSE updateCalls \o r.calls
           /\ last' = Outcome("incr_remote", a.original_oid, stage, f,
                               IF f = "client" THEN <<>> ELSE r.written)
           /\ run' = Injected(stage, f)
    /\ pending' = Tail(pending)
    /\ UNCHANGED <<procs, userName, headRef, rewriteNotes, createCalls, next_pr_number, merged>>

\* IncrementalUpdate without --github
ApplyIncrLocal(f) ==
    /\ pending # <<>>
    /\ Head(pending).kind = "IncrementalUpdate"
    /\ ~run.github
    /\ Cardinality(IncrCommits) < MaxIncr
    /\ LET a == Head(pending)
           r == create_incremental_commit(a, f, branches, notes,
                                          Len(commits) + 1)
       IN  /\ commits' = commits \o r.objects
           /\ branches' = r.branches
           /\ notes' = r.notes
           /\ last' = Outcome("incr_local", a.original_oid, r.stage, f,
                               r.written)
           /\ run' = Injected(r.stage, f)
    /\ pending' = Tail(pending)
    /\ UNCHANGED <<procs, userName, headRef, rewriteNotes, remote, createCalls, updateCalls,
                   next_pr_number, merged>>

\* a second call of create_pr_branch for the commit it has just tracked
CreateAgain(f) ==
    /\ pending = <<>>
    /\ last.op = "create_local"
    /\ last.stage = "done"
    /\ LET a == NewCommit(last.commit)
           r == create_pr_branch(a, f, branches, notes)
       IN  /\ branches' = r.branches
           /\ notes' = r.notes
           /\ last' = Outcome("create_local_again", a.id, r.stage, f,
                               r.written)
    /\ run' = NoRun
    /\ UNCHANGED <<procs, userName, headRef, rewriteNotes, commits, remote, createCalls,
                   updateCalls, next_pr_number, merged, pending>>

\* ------------------------------------------------------- the `land` command
\* the gateway comes to report a pull request as merged
GatewayMerge(n) ==
    /\ pending = <<>>
    /\ n \in FirstPrNumber..(next_pr_number - 1)
    /\ n \notin merged
    /\ merged' = merged \cup {n}
    /\ run' = NoRun
    /\ last' = NoLast
    /\ UNCHANGED <<procs, userName, headRef, rewriteNotes, commits, branches, remote, notes,
                   createCalls, updateCalls, next_pr_number, pending>>

\* cleanup_merged_pr: a local branch that is missing and a remote branch
\* that cannot be deleted do not stop it; a record that cannot be written does
cleanup_merged_pr(pr_info, f, brs, rem, ns) ==
    LET name == pr_info.branch_name
        s1 == f # "delete_local"
        brs1 == IF s1 /\ name \in DOMAIN brs THEN Remove(brs, name) ELSE brs
        rem1 == IF s1 /\ f # "delete_remote" /\ name \in DOMAIN rem
                THEN Remove(rem, name) ELSE rem
        found == pr_info.commit_id \in DOMAIN ns
        s2 == s1 /\ ~(found /\ f = "update")
        ns1 == IF s2 /\ found
               THEN Put(ns, pr_info.commit_id,
                        [ns[pr_info.commit_id] EXCEPT !.status = "PRMerged"])
               ELSE ns
    IN  [ok |-> s2, branches |-> brs1, remote |-> rem1, notes |-> ns1]

\* the cleanup loop: the failure f strikes the first pull request only
RECURSIVE CleanupAll(_, _, _)
CleanupAll(prs, f, st) ==
    IF prs = <<>> THEN st
    ELSE LET r == cleanup_merged_pr(Head(prs), f, st.branches, st.remote,
                                    st.notes)
         IN  CleanupAll(Tail(prs), "none",
                        [branches |-> r.branches,
                         remote |-> r.remote,
                         notes |-> r.notes,
                         cleaned_up |-> st.cleaned_up
                                          + (IF r.ok THEN 1 ELSE 0),
                         failed |-> st.failed + (IF r.ok THEN 0 ELSE 1)])

land_merged_prs_eager(all, dry_run, f, brs, rem, ns, mg) ==
    LET done(c) == ns[c].github_pr_number \in mg
    IN  [stage |-> "done",
         branches |-> brs,
         remote |-> rem,
         notes |-> [c \in DOMAIN ns |->
                      IF done(c) THEN [ns[c] EXCEPT !.status = "PRMerged"]
                      ELSE ns[c]],
         cleaned_up |-> Cardinality({c \in DOMAIN ns : done(c)}),
         failed |-> 0]

land_merged_prs(all, dry_run, f, brs, rem, ns, mg) ==
    LET st == [branches |-> brs, remote |-> rem, notes |-> ns,
               cleaned_up |-> 0, failed |-> 0]
        stop(stage) == [stage |-> stage] @@ st
        pr_statuses == get_all_pr_status(ns)
        prs_to_check == SelectSeq(pr_statuses, LAMBDA pr : pr.pr_number # 0)
        merged_prs == SelectSeq(prs_to_check, LAMBDA pr : pr.pr_number \in mg)
    IN  IF f = "token" THEN stop("token")
        ELSE IF pr_statuses = <<>> THEN stop("empty")
        ELSE IF f = "client" THEN stop("client")
        ELSE IF prs_to_check = <<>> THEN stop("no_numbers")
        ELSE IF f = "statuses" THEN stop("statuses")
        ELSE IF merged_prs = <<>> THEN stop("none_merged")
        ELSE IF dry_run THEN stop("dry_run")
        ELSE [stage |-> "done"] @@ CleanupAll(merged_prs, f, st)

LandFails == {"none", "token", "client", "statuses", "delete_local",
              "delete_remote", "update"}

Land(all, dry_run, f) ==
    /\ pending = <<>>
    /\ LET r == land_merged_prs(all, dry_run, f, branches, remote, notes,
                                merged)
       IN  /\ branches' = r.branches
           /\ remote' = r.remote
           /\ notes' = r.notes
           /\ last' = [op |-> "land", commit |-> 0, stage |-> r.stage,
                       injected |-> r.stage = f, had |-> FALSE,
                       trace |-> <<>>, creds |-> f # "token",
                       dry_run |-> dry_run,
                       cleaned_up |-> r.cleaned_up, failed |-> r.failed]
    /\ run' = NoRun
    /\ UNCHANGED <<procs, userName, headRef, rewriteNotes, commits, createCalls, updateCalls,
                   next_pr_number, merged, pending>>

\* ------------------------------------------------------------ specification
\* `gitx prs`: display_status shows the rows get_all_pr_status() lists, or
\* "No stacked PRs found." when there are none
Prs ==
    /\ pending = <<>>
    /\ last' = [op |-> "prs", commit |-> 0, stage |-> "done",
                injected |-> FALSE, had |-> FALSE, trace |-> <<>>,
                shown |-> get_all_pr_status(notes)]
    /\ run' = NoRun
    /\ UNCHANGED <<procs, userName, headRef, rewriteNotes, commits, branches, remote,
                   notes, createCalls, updateCalls, next_pr_number, merged,
                   pending>>

RootMessage == <<"I", "n", "i", "t">>

RootCommit ==
    [kind |-> "user", parent |-> 0, message |-> RootMessage, tree |-> 1,
     amends |-> 0, amends_tracked |-> FALSE, amends_pr |-> 0]

\* the repositories the tool is started in: HEAD's branch, the branches that
\* exist beside it, and whether git rewrites the notes of amended commits
InitConfigs ==
    { [head |-> MAIN, names |-> {MAIN}, rewrite |-> FALSE],
      [head |-> MAIN, names |-> {MAIN}, rewrite |-> TRUE],
      [head |-> MASTER, names |-> {MAIN, MASTER}, rewrite |-> FALSE],
      [head |-> DEV, names |-> {DEV, MASTER}, rewrite |-> FALSE],
      [head |-> DEV, names |-> {DEV}, rewrite |-> FALSE] }

\* a repository holding the initial commit, nothing tracked yet
Init ==
    /\ \E cfg \in InitConfigs :
          /\ headRef = cfg.head
          /\ rewriteNotes = cfg.rewrite
          /\ branches = [n \in cfg.names |-> 1]
    /\ procs = <<>>
    /\ userName = USER
    /\ commits = <<RootCommit>>
    /\ remote = <<>>
    /\ notes = <<>>
    /\ createCalls = <<>>
    /\ updateCalls = <<>>
    /\ next_pr_number = FirstPrNumber
    /\ merged = {}
    /\ pending = <<>>
    /\ run = NoRun
    /\ last = NoLast

Next ==
    \/ \E msg \in Msgs : GitCommit(msg)
    \/ \E msg \in Msgs \cup {RootMessage} : GitAmend(msg)
    \/ \E github \in BOOLEAN, all \in BOOLEAN : Diff(github, all)
    \/ \E f \in CreateFails : ApplyNewRemote(f)
    \/ \E f \in LocalCreateFails : ApplyNewLocal(f)
    \/ \E f \in IncrFails : ApplyIncrRemote(f)
    \/ \E f \in LocalIncrFails : ApplyIncrLocal(f)
    \/ \E f \in LocalCreateFails : CreateAgain(f)
    \/ \E n \in 1..MaxCommits : GatewayMerge(n)
    \/ Prs
    \/ \E dry_run \in BOOLEAN, f \in LandFails :
          \* --all only changes the hint printed when no PR is merged
          Land(FALSE, dry_run, f)

Spec == Init /\ [][Next]_vars

\* ------------------------------------- classification over longer histories
\* a linear history of n commits on main
History(n) ==
    [i \in 1..n |->
        IF i = 1 THEN RootCommit
        ELSE [kind |-> "user", parent |-> i - 1,
              message |-> CHOOSE m \in Msgs : TRUE, tree |-> i,
              amends |-> 0, amends_tracked |-> FALSE, amends_pr |-> 0]]

\* the records and branches that local-only creates leave for the commits of
\* T, each tracked while it was HEAD: commits with one title share a branch,
\* which stays where the first create put it
TrackedNotes(h, T) ==
    [c \in T |->
        new_branch_created(generate_branch_name(USER, h[c].message), c,
                           1 + Cardinality({d \in T : d < c}))]

TrackedBranches(h, T) ==
    LET names == {generate_branch_name(USER, h[c].message) : c \in T}
        first(n) == CHOOSE c \in T :
                      /\ generate_branch_name(USER, h[c].message) = n
                      /\ \A d \in T :
                            generate_branch_name(USER, h[d].message) = n
                            => c <= d
    IN  [n \in names \cup {MAIN} |-> IF n = MAIN THEN Len(h) ELSE first(n)]

InitWalk ==
    /\ \E n \in 0..MaxHist :
         \E T \in SUBSET ({1, n - 1, n} \cap (1..n)) :
            /\ commits = History(n)
            /\ notes = TrackedNotes(History(n), T)
            /\ branches = IF n = 0 THEN <<>>
                          ELSE TrackedBranches(History(n), T)
    /\ procs = <<>>
    /\ userName = USER
    /\ headRef = MAIN
    /\ rewriteNotes = FALSE
    /\ remote = <<>>
    /\ createCalls = <<>>
    /\ updateCalls = <<>>
    /\ next_pr_number = FirstPrNumber
    /\ merged = {}
    /\ pending = <<>>
    /\ run = NoRun
    /\ last = NoLast

NextWalk == \E latest_only \in BOOLEAN : ClassifyOnly(latest_only)

SpecWalk == InitWalk /\ [][NextWalk]_vars

\* ------------------------------------------ classification over stored notes
\* that may not decode: a history of n commits on main in which the commits of
\* T have a note and the notes of M, a part of T, do not decode
InitDecode ==
    /\ \E n \in 1..MaxDecodeHist :
         \E T \in SUBSET (1..n) :
           \E M \in SUBSET T :
             /\ commits = History(n)
             /\ notes = [c \in T |->
                            IF c \in M THEN MALFORMED
                            ELSE TrackedNotes(History(n), T)[c]]
             /\ branches = TrackedBranches(History(n), T)
    /\ procs = <<>>
    /\ userName = USER
    /\ headRef = MAIN
    /\ rewriteNotes = FALSE
    /\ remote = <<>>
    /\ createCalls = <<>>
    /\ updateCalls = <<>>
    /\ next_pr_number = FirstPrNumber
    /\ merged = {}
    /\ pending = <<>>
    /\ run = NoRun
    /\ last = NoLast

NextDecode == \E latest_only \in BOOLEAN : ClassifyOnly(latest_only)

SpecDecode == InitDecode /\ [][NextDecode]_vars

\* ----------------------------------------------- branch names from messages
\* commit messages: a run of letters of any length around the title limit,
\* followed by a few characters of every class the sanitizer tells apart
NameChars == {"A", "1", "!", " ", "\n"}
Tails == UNION {[1..n -> NameChars] : n \in 0..MaxTail}
Pad(n) == [i \in 1..n |-> "a"]
PadLens == {0} \cup ((MaxTitleLen - 3)..(MaxTitleLen + MaxOver))
NamingMsgs == {Pad(n) \o t : n \in PadLens, t \in Tails}

\* git config user.name: a plain name, none, or a full name
UserNames == {USER, <<>>, <<"A", " ", "L">>}

InitNaming ==
    /\ procs = <<>>
    /\ userName \in UserNames
    /\ \E m \in NamingMsgs : commits = <<[RootCommit EXCEPT !.message = m]>>
    /\ headRef = MAIN
    /\ rewriteNotes = FALSE
    /\ branches = [n \in {MAIN} |-> 1]
    /\ remote = <<>>
    /\ notes = <<>>
    /\ createCalls = <<>>
    /\ updateCalls = <<>>
    /\ next_pr_number = FirstPrNumber
    /\ merged = {}
    /\ pending = <<>>
    /\ run = NoRun
    /\ last = NoLast

NextNaming ==
    \/ Diff(FALSE, FALSE)
    \/ \E f \in LocalCreateFails : ApplyNewLocal(f)

SpecNaming == InitNaming /\ [][NextNaming]_vars

\* ------------------------------- local-only diff runs that run side by side
\* Each run is `gitx diff` without --github in the same repository: it
\* classifies the latest commit, and for a NewCommit calls create_pr_branch,
\* whose three storage accesses (repo.branch, has_pr_metadata,
\* store_commit_metadata) are separate steps between which the other runs
\* may act.
Runs == 1..MaxRuns

RunStart == [pc |-> "classify", a |-> <<>>, commit_metadata |-> <<>>,
             stored |-> FALSE]

\* get_latest_commit_needing_processing(), then handle_diff takes the update
RunClassify(p) ==
    /\ procs[p].pc = "classify"
    /\ LET res == get_commits_needing_processing_impl(TRUE, notes, branches)
           news == SelectSeq(res.updates, LAMBDA u : u.kind = "NewCommit")
       IN  procs' = [procs EXCEPT ![p] =
                       IF res.ok /\ news # <<>>
                       THEN [@ EXCEPT !.pc = "branch", !.a = Head(news)]
                       ELSE [@ EXCEPT !.pc = "done"]]
    /\ UNCHANGED <<userName, headRef, rewriteNotes, commits, branches, remote,
                   notes, createCalls, updateCalls, next_pr_number, merged,
                   pending, run, last>>

\* repo.branch(name, commit, false): Exists counts as success
RunBranch(p) ==
    /\ procs[p].pc = "branch"
    /\ LET name == procs[p].a.potential_branch_name
       IN  IF ~is_valid_ref_name(name)
           THEN /\ procs' = [procs EXCEPT ![p].pc = "failed"]
                /\ UNCHANGED branches
           ELSE /\ procs' = [procs EXCEPT ![p].pc = "check"]
                /\ branches' = IF name \in DOMAIN branches THEN branches
                               ELSE Put(branches, name, procs[p].a.id)
    /\ UNCHANGED <<userName, headRef, rewriteNotes, commits, remote, notes,
                   createCalls, updateCalls, next_pr_number, merged, pending,
                   run, last>>

\* if !has_pr_metadata(id) { new_branch_created(name, id) .. }
RunCheck(p) ==
    /\ procs[p].pc = "check"
    /\ procs' = [procs EXCEPT ![p] =
                   IF has_pr_metadata(notes, procs[p].a.id)
                   THEN [@ EXCEPT !.pc = "done"]
                   ELSE [@ EXCEPT !.pc = "store",
                                  !.commit_metadata =
                                      new_branch_created(
                                          procs[p].a.potential_branch_name,
                                          procs[p].a.id, Now(notes))]]
    /\ UNCHANGED <<userName, headRef, rewriteNotes, commits, branches, remote,
                   notes, createCalls, updateCalls, next_pr_number, merged,
                   pending, run, last>>

\* store_commit_metadata(id, &commit_metadata)?
RunStore(p) ==
    /\ procs[p].pc = "store"
    /\ IF store_commit_metadata_ok(notes, procs[p].a.id)
       THEN /\ notes' = Put(notes, procs[p].a.id, procs[p].commit_metadata)
            /\ procs' = [procs EXCEPT ![p].pc = "done", ![p].stored = TRUE]
       ELSE /\ notes' = notes
            /\ procs' = [procs EXCEPT ![p].pc = "failed"]
    /\ UNCHANGED <<userName, headRef, rewriteNotes, commits, branches, remote,
                   createCalls, updateCalls, next_pr_number, merged, pending,
                   run, last>>

\* the repositories of Init, HEAD's commit carrying any of the messages
InitRace ==
    /\ \E cfg \in InitConfigs :
          /\ headRef = cfg.head
          /\ rewriteNotes = cfg.rewrite
          /\ branches = [n \in cfg.names |-> 1]
    /\ \E msg \in Msgs \cup {RootMessage} :
          commits = <<[RootCommit EXCEPT !.message = msg]>>
    /\ procs = [p \in Runs |-> RunStart]
    /\ userName = USER
    /\ remote = <<>>
    /\ notes = <<>>
    /\ createCalls = <<>>
    /\ updateCalls = <<>>
    /\ next_pr_number = FirstPrNumber
    /\ merged = {}
    /\ pending = <<>>
    /\ run = NoRun
    /\ last = NoLast

NextRace ==
    \E p \in Runs :
       \/ RunClassify(p)
       \/ RunBranch(p)
       \/ RunCheck(p)
       \/ RunStore(p)

SpecRace == InitRace /\ [][NextRace]_vars

\* --------------------------------- a land that runs beside a diff invocation
\* One merged pull request's turn in land's cleanup loop, for the record kept
\* under commit c, taken while a diff invocation may be between its
\* classification and its handlers: cleanup_merged_pr reads the record anew,
\* sets PRMerged and writes it back.
LandCleanup(c, f) ==
    /\ c \in DOMAIN notes
    /\ notes[c].github_pr_number # 0
    /\ notes[c].github_pr_number \in merged
    /\ LET pr_info == [branch_name |-> notes[c].pr_branch_name,
                       commit_id |-> c,
                       pr_number |-> notes[c].github_pr_number]
           r == cleanup_merged_pr(pr_info, f, branches, remote, notes)
       IN  /\ branches' = r.branches
           /\ remote' = r.remote
           /\ notes' = r.notes
    /\ UNCHANGED <<procs, userName, headRef, rewriteNotes, commits, createCalls,
                   updateCalls, next_pr_number, merged, pending, run, last>>

NextLandRace ==
    \/ \E msg \in Msgs : GitAmend(msg)
    \/ \E github \in BOOLEAN, all \in BOOLEAN : Diff(github, all)
    \/ \E f \in {"none", "delete"} : ApplyNewRemote(f)
    \/ ApplyNewLocal("none")
    \/ ApplyIncrRemote("none")
    \/ ApplyIncrLocal("none")
    \/ \E n \in 1..MaxCommits : GatewayMerge(n)
    \/ \E c \in 1..(MaxCommits + MaxIncr), f \in {"none", "delete_remote"} :
          LandCleanup(c, f)

SpecLandRace == Init /\ [][NextLandRace]_vars

\* ================================================================ properties
PrimaryHead ==
    IF PrimaryRef(branches) = <<>> THEN 0 ELSE branches[PrimaryRef(branches)]

\* the diff invocation is over: all it offered was selected and applied, and
\* none of its collaborators failed
RunComplete == run.active /\ run.full /\ ~run.injected /\ pending = <<>>

TrackedCurrent(c) == c \in DOMAIN notes /\ notes[c].original_commit_id = c

StatusStep(a, b) ==
    \/ a = b
    \/ a = "BranchCreated" /\ b \in {"PRCreated", "Cancelled"}
    \/ a = "PRCreated" /\ b \in {"PRMerged", "Cancelled"}

\* C1: a record's status only moves BranchCreated -> PRCreated -> PRMerged,
\* or to Cancelled from a non-terminal status: every write an operation makes
\* to a record, and every step of the system, leaves the status or advances
\* it along those edges, so PRMerged and Cancelled are never left.
C1_StatusLifecycle ==
    /\ [](\A i \in 1..(Len(last.trace) - 1) :
            StatusStep(last.trace[i].status, last.trace[i + 1].status))
    /\ [][\A c \in DOMAIN notes \cap DOMAIN notes' :
            StatusStep(notes[c].status, notes'[c].status)]_vars

C1_Witness ==
    /\ last.op = "create_remote"
    /\ Len(last.trace) = 2
    /\ last.trace[1].status = "BranchCreated"
    /\ last.trace[2].status = "PRCreated"
    /\ notes[last.commit] = last.trace[2]

\* C2: once a commit that has a pull request was amended and remote mode has
\* run again over the amended commit, create_pr has been called at most once
\* for the branch name of the amended commit's record, and update_pr has been
\* called with the number of the original pull request.
C2_AmendUpdatesExistingPR ==
    \A c \in UserCommits :
        (/\ commits[c].amends_pr # 0
         /\ c = PrimaryHead
         /\ RunComplete
         /\ run.github)
        => /\ Cardinality({i \in DOMAIN createCalls :
                 createCalls[i].branch
                    = notes[commits[c].amends].pr_branch_name}) <= 1
           /\ \E i \in DOMAIN updateCalls :
                 updateCalls[i] = commits[c].amends_pr

\* C3: when a tracked commit was amended, classification emits an
\* IncrementalUpdate and no NewCommit for the amended commit, and the first
\* application of that update leaves the record with exactly one incremental
\* entry, of type AmendedCommit.
C3_AmendClassifiedIncremental ==
    /\ \A c \in UserCommits :
         (/\ commits[c].amends_tracked
          /\ c = PrimaryHead
          /\ ~TrackedCurrent(c)
          /\ run.active /\ run.ok /\ last.op = "none")
         => /\ \E i \in DOMAIN run.found :
                  run.found[i] = <<"IncrementalUpdate", c>>
            /\ \A i \in DOMAIN run.found :
                  run.found[i][2] = c => run.found[i][1] = "IncrementalUpdate"
    /\ (/\ last.op \in {"incr_local", "incr_remote"}
        /\ last.stage = "done"
        /\ commits[last.commit].amends_tracked
        /\ last.trace[1].incremental_commits = <<>>)
       => /\ Len(notes[last.commit].incremental_commits) = 1
          /\ notes[last.commit].incremental_commits[1].commit_type
                = "AmendedCommit"

\* C4: when a remote-mode create of a commit has failed at one of its steps
\* and remote mode has then run again over that commit with no failure, the
\* commit's record has status PRCreated and a PR number, and the local branch
\* of that name does not exist.
C4_RetryCompletes ==
    (/\ RunComplete
     /\ run.github
     /\ run.retry # 0
     /\ run.retry \in Range(Window(~run.all, branches)))
    => /\ run.retry \in DOMAIN notes
       /\ notes[run.retry].status = "PRCreated"
       /\ notes[run.retry].github_pr_number # 0
       /\ generate_branch_name(USER, commits[run.retry].message)
             \notin DOMAIN branches

\* C5: when one full-window remote run has found exactly a parent P and its
\* child C untracked and has processed both, the pull request created for C
\* has P's branch as its base and the one created for P has the primary
\* branch.
C5_StackBases ==
    (/\ RunComplete
     /\ run.github /\ run.all
     /\ Len(run.found) = 2
     /\ run.found[1][1] = "NewCommit"
     /\ run.found[2][1] = "NewCommit"
     /\ ParentOf(run.found[1][2]) = run.found[2][2]
     /\ ParentOf(run.found[2][2]) = 0)
    => \A i \in DOMAIN createCalls :
          /\ createCalls[i].commit = run.found[1][2]
             => createCalls[i].base
                   = generate_branch_name(USER,
                                          commits[run.found[2][2]].message)
          /\ createCalls[i].commit = run.found[2][2]
             => createCalls[i].base = PrimaryRef(branches)

\* C6: the base the resolver gives a commit is the branch name in its
\* parent's record exactly when that parent has a record with a PR number;
\* otherwise it is main if that branch exists, else master if that one exists,
\* else the fixed name "main"; and a remote create passes that base to
\* create_pr.
C6_ResolveBase ==
    LET primary == IF MAIN \in DOMAIN branches THEN MAIN
                   ELSE IF MASTER \in DOMAIN branches THEN MASTER
                   ELSE <<"m", "a", "i", "n">>
        stacked(c) == /\ commits[c].parent \in DOMAIN notes
                      /\ notes[commits[c].parent].github_pr_number > 0
        expected(c) == IF stacked(c)
                       THEN notes[commits[c].parent].pr_branch_name
                       ELSE primary
    IN  /\ \A c \in DOMAIN commits :
            determine_base_branch_for_commit(c, notes, branches) = expected(c)
        /\ (last.op = "create_remote"
            /\ last.stage \in {"update", "delete", "done"})
           => createCalls[Len(createCalls)].base = expected(last.commit)

C6_Witness ==
    /\ last.op = "create_remote"
    /\ last.stage = "done"
    /\ ParentOf(last.commit) \in DOMAIN notes
    /\ notes[ParentOf(last.commit)].github_pr_number > 0
    /\ createCalls[Len(createCalls)].commit = last.commit
    /\ createCalls[Len(createCalls)].base
          = notes[ParentOf(last.commit)].pr_branch_name

\* C7: what a diff invocation is offered holds, for each commit of its
\* window, exactly one of: a single NewCommit naming the derived branch when
\* the commit has no record; nothing when its record's anchor is its id; a
\* single IncrementalUpdate carrying the record when the anchor differs.
C7_ClassifyOutcomes ==
    (run.active /\ run.ok /\ run.full /\ last.op = "none")
    => \A c \in Range(Window(~run.all, branches)) :
          LET acts == {i \in DOMAIN pending : ActionCommit(pending[i]) = c}
          IN  IF c \notin DOMAIN notes
              THEN /\ Cardinality(acts) = 1
                   /\ \A i \in acts :
                        /\ pending[i].kind = "NewCommit"
                        /\ pending[i].potential_branch_name
                              = generate_branch_name(USER, commits[c].message)
              ELSE IF notes[c].original_commit_id = c
              THEN acts = {}
              ELSE /\ Cardinality(acts) = 1
                   /\ \A i \in acts :
                        /\ pending[i].kind = "IncrementalUpdate"
                        /\ pending[i].metadata = notes[c]

C7_Witness ==
    /\ run.active /\ run.ok /\ run.full /\ last.op = "none"
    /\ \E i \in DOMAIN pending :
          /\ pending[i].kind = "IncrementalUpdate"
          /\ pending[i].metadata.original_commit_id # pending[i].updated_oid
    /\ \E c \in DOMAIN notes : notes[c].original_commit_id = c

\* C8 as stated: a classification that repeats one over the same window, with
\* no write in between, returns the empty list.
C8_SecondCallEmpty == run.again => run.found = <<>>

\* C8, amended: a classification that repeats one over the same window, with
\* no write in between, returns what the first returned, and that is empty
\* exactly when every commit of the window has a record anchored at its id.
C8_SecondCallSame ==
    /\ [][run'.again => run'.found = run.found]_vars
    /\ []((run.again /\ last.op = "none") =>
            (run.found = <<>>
             <=> \A c \in Range(Window(~run.all, branches)) :
                    TrackedCurrent(c)))

C8_Witness ==
    /\ run.again
    /\ run.found # <<>>
    /\ last.op = "none"

\* the k newest commits reachable from c
Newest(c, k) ==
    {a \in DOMAIN commits :
        /\ IsAncestor(a, c)
        /\ Cardinality({d \in DOMAIN commits :
                          IsAncestor(a, d) /\ IsAncestor(d, c)}) <= k}

\* C9: a classification returns at most 10 actions (1 in single mode), all
\* of them for the 10 (1) newest commits reachable from the primary head; in
\* single mode a tracked head yields no action, whatever lies below it.
C9_WindowBound ==
    (run.active /\ run.ok)
    => LET k == IF run.all THEN 10 ELSE 1
       IN  /\ Len(run.found) <= k
           /\ \A i \in DOMAIN run.found :
                 run.found[i][2] \in Newest(PrimaryHead, k)
           /\ (~run.all /\ TrackedCurrent(PrimaryHead)) => run.found = <<>>

C9_Witness ==
    /\ run.active /\ run.ok /\ run.all
    /\ Len(run.found) = 10
    /\ \E c \in DOMAIN commits :
          c \notin DOMAIN notes /\ c \notin Newest(PrimaryHead, 10)

\* C10: after a local-only create has succeeded for a commit, the commit has
\* a record with status BranchCreated, no PR number, the commit as anchor and
\* no incremental entries, and the local branch the record names exists and
\* points at the commit.
C10_LocalCreatePostcondition ==
    (last.op = "create_local" /\ last.stage = "done")
    => LET c == last.commit
       IN  /\ c \in DOMAIN notes
           /\ notes[c].status = "BranchCreated"
           /\ notes[c].github_pr_number = 0
           /\ notes[c].original_commit_id = c
           /\ notes[c].incremental_commits = <<>>
           /\ notes[c].pr_branch_name \in DOMAIN branches
           /\ branches[notes[c].pr_branch_name] = c

\* C11: running the local-only create a second time for the same commit
\* succeeds and changes nothing: the record is not rewritten (same fields,
\* same created_at) and the branches are left as they were.
C11_SecondLocalCreateNoChange ==
    [][last'.op = "create_local_again"
       => /\ last'.stage = "done"
          /\ last.commit \in DOMAIN notes
          /\ notes' = notes
          /\ branches' = branches]_vars

C11_Witness ==
    /\ last.op = "create_local_again"
    /\ last.stage = "done"
    /\ last.had
    /\ last.trace = <<notes[last.commit]>>
    /\ notes[last.commit].pr_branch_name \in DOMAIN branches

\* C12: after a remote-mode create in which every step succeeded, the
\* commit's record has status PRCreated and the PR number the gateway
\* returned, the branch is on the remote at the commit, and no local branch of
\* that name remains.
C12_RemoteCreatePostcondition ==
    (last.op = "create_remote" /\ last.stage = "done")
    => LET c == last.commit
           call == createCalls[Len(createCalls)]
       IN  /\ c \in DOMAIN notes
           /\ createCalls # <<>>
           /\ call.commit = c
           /\ notes[c].status = "PRCreated"
           /\ notes[c].github_pr_number = call.number
           /\ notes[c].pr_branch_name = call.branch
           /\ call.branch \in DOMAIN remote
           /\ remote[call.branch] = c
           /\ call.branch \notin DOMAIN branches

C12_Witness ==
    /\ last.op = "create_remote"
    /\ last.stage = "done"
    /\ last.commit \in DOMAIN notes
    /\ notes[last.commit].github_pr_number >= FirstPrNumber
    /\ notes[last.commit].pr_branch_name \in DOMAIN remote

\* C13: in every branch-creating operation (local create, remote create,
\* remote incremental update) a branch that already exists is treated as
\* success and the operation goes on; no such operation ends at its
\* branch-creation step unless a storage error other than "exists" struck it.
C13_ExistingBranchIsSuccess ==
    (last.op \in {"create_local", "create_local_again",
                  "create_remote", "incr_remote"}
       /\ ~last.injected)
    => last.stage # "branch"

\* C14: a record's PR number is written exactly once, in the same write that
\* moves its status from BranchCreated to PRCreated, and is never changed or
\* cleared afterwards.
NumberStep(a, b) ==
    IF a.status = "BranchCreated" /\ b.status = "PRCreated"
    THEN a.github_pr_number = 0 /\ b.github_pr_number # 0
    ELSE b.github_pr_number = a.github_pr_number

C14_PrNumberWrittenOnce ==
    /\ [](\A i \in 1..(Len(last.trace) - 1) :
             NumberStep(last.trace[i], last.trace[i + 1]))
    /\ [][\A c \in DOMAIN notes \cap DOMAIN notes' :
             notes'[c] # notes[c]
             => NumberStep(notes[c], notes'[c])]_vars

C14_Witness ==
    /\ last.op = "create_remote"
    /\ last.stage = "done"
    /\ Len(last.trace) = 2
    /\ last.trace[1].github_pr_number = 0
    /\ last.trace[1].status = "BranchCreated"
    /\ last.trace[2].github_pr_number = createCalls[Len(createCalls)].number
    /\ last.trace[2].status = "PRCreated"

\* C15: no operation changes the branch name or the anchor commit of a record
\* that already exists.
SameNameAndAnchor(a, b) ==
    /\ b.pr_branch_name = a.pr_branch_name
    /\ b.original_commit_id = a.original_commit_id

C15_NameAndAnchorFrozen ==
    /\ [](\A i \in 1..(Len(last.trace) - 1) :
             SameNameAndAnchor(last.trace[i], last.trace[i + 1]))
    /\ [][\A c \in DOMAIN notes \cap DOMAIN notes' :
             SameNameAndAnchor(notes[c], notes'[c])]_vars

C15_Witness ==
    /\ last.op \in {"incr_local", "incr_remote"}
    /\ last.stage = "done"
    /\ last.had
    /\ Len(last.trace) = 2
    /\ last.trace[2] # last.trace[1]
    /\ last.trace[2].original_commit_id # last.commit

\* C17: each incremental update leaves the earlier entries of the record's
\* history unchanged and in order, and adds exactly one entry at the end.
IsPrefix(s, t) ==
    /\ Len(s) <= Len(t)
    /\ \A i \in 1..Len(s) : s[i] = t[i]

C17_HistoryAppendOnly ==
    [][(last'.op \in {"incr_local", "incr_remote"}
          /\ last'.stage = "done"
          /\ last'.commit \in DOMAIN notes)
       => LET old == notes[last'.commit].incremental_commits
              new == notes'[last'.commit].incremental_commits
          IN  /\ IsPrefix(old, new)
              /\ Len(new) = Len(old) + 1]_vars

C17_Witness ==
    /\ last.op = "incr_local"
    /\ last.stage = "done"
    /\ Len(last.trace) = 2
    /\ Len(last.trace[1].incremental_commits) = 1
    /\ Len(notes[last.commit].incremental_commits) = 2
    /\ notes[last.commit].incremental_commits[1]
         = last.trace[1].incremental_commits[1]

\* C16: a remote-mode incremental update for a record that has no PR number
\* changes nothing (no branch, no push, no gateway call, no record change) and
\* returns success.
C16_NoPrNumberSkips ==
    [][(/\ pending # <<>>
        /\ Head(pending).kind = "IncrementalUpdate"
        /\ Head(pending).metadata.github_pr_number = 0
        /\ last'.op = "incr_remote"
        /\ ~last'.injected)
       => /\ last'.stage = "skipped"
          /\ UNCHANGED <<commits, branches, remote, notes, createCalls,
                         updateCalls, next_pr_number, headRef>>]_vars

C16_Witness ==
    /\ last.op = "incr_remote"
    /\ last.stage = "skipped"
    /\ last.had
    /\ last.trace = <<notes[last.commit]>>
    /\ notes[last.commit].github_pr_number = 0
    /\ notes[last.commit].original_commit_id # last.commit

\* C18: an incremental update is recorded with the kind the Classifier's
\* action supplies: AmendedCommit when the commit's identity changed in
\* place, AdditionalCommit when a wholly new commit was appended.
C18_KindFromClassifier ==
    [][(/\ pending # <<>>
        /\ Head(pending).kind = "IncrementalUpdate"
        /\ last'.op \in {"incr_local", "incr_remote"}
        /\ last'.stage = "done")
       => LET a == Head(pending)
              entries == notes'[a.original_oid].incremental_commits
          IN  /\ "commit_type" \in DOMAIN a
              /\ entries[Len(entries)].commit_type = a.commit_type
              /\ a.commit_type
                   = (IF commits[a.updated_oid].amends # 0
                      THEN "AmendedCommit" ELSE "AdditionalCommit")]_vars

\* C19: a dry-run land deletes no branch, writes no record, calls no mutating
\* gateway operation and does not sync, however many merged PRs there are.
MergedRecords == {c \in DOMAIN notes : notes[c].github_pr_number \in merged}

C19_DryRunChangesNothing ==
    [][(last'.op = "land" /\ last'.dry_run)
       => UNCHANGED <<headRef, commits, branches, remote, notes, createCalls,
                      updateCalls, next_pr_number, merged>>]_vars

C19_Witness ==
    /\ last.op = "land"
    /\ last.dry_run
    /\ ~last.injected
    /\ MergedRecords # {}
    /\ \E c \in MergedRecords : notes[c].pr_branch_name \in DOMAIN remote

\* C20: when the cleanup of one merged PR fails during land, the remaining
\* merged PRs are still processed, and the summary's failure count is the
\* number of PRs whose cleanup failed: a land that got past the credential and
\* gateway checks accounts for every merged PR as cleaned up or failed, and
\* every record it did not count as failed is PRMerged.
C20_LandCountsFailures ==
    (last.op = "land" /\ ~last.dry_run /\ ~last.injected)
    => /\ last.cleaned_up + last.failed = Cardinality(MergedRecords)
       /\ Cardinality({c \in MergedRecords : notes[c].status # "PRMerged"})
            <= last.failed

\* C21: after a land that is not a dry run, had credentials and met no
\* failure, the records set to PRMerged are exactly those that have a PR
\* number whose PR the gateway reports as merged.
C21_LandMarksMerged ==
    (last.op = "land" /\ ~last.dry_run /\ ~last.injected /\ last.failed = 0)
    => \A c \in DOMAIN notes :
          notes[c].status = "PRMerged"
          <=> (notes[c].github_pr_number # 0
               /\ notes[c].github_pr_number \in merged)

\* C22: the listing returns every record that has been stored: the status
\* display built on it shows a row for every commit that has a record, so
\* after a successful create the commit's record is among the rows.
C22_ListingShowsEveryRecord ==
    last.op = "prs"
    => \A c \in DOMAIN notes :
          \E i \in DOMAIN last.shown : last.shown[i].commit_id = c

\* C23: a stored payload that cannot be decoded is treated as an absent
\* record: get reports no record for it, and a classification walk that meets
\* such a commit does not fail but returns the actions of the window, the
\* commit itself counting as one without a record.
C23_UndecodableIsAbsent ==
    (run.active /\ PrimaryRef(branches) # <<>>)
    => LET walk == Window(~run.all, branches)
       IN  /\ \A i \in DOMAIN walk :
                 (walk[i] \in DOMAIN notes
                    /\ "malformed" \in DOMAIN notes[walk[i]])
                 => /\ get_commit_metadata(notes, walk[i]).ok
                    /\ ~get_commit_metadata(notes, walk[i]).some
           /\ run.ok
           /\ run.found = Found(ClassifyWalk(walk, notes))

\* C24: normal operation (create, incremental update, land) never removes a
\* record: a commit that has a record has one in every later state.
C24_RecordsNeverRemoved ==
    [][DOMAIN notes \subseteq DOMAIN notes']_vars

C24_Witness ==
    /\ Cardinality(DOMAIN notes) >= 2
    /\ \/ last.op \in {"incr_local", "create_local", "create_remote"}
             /\ last.stage = "done"
       \/ last.op = "land" /\ ~last.dry_run /\ ~last.injected
             /\ \E c \in DOMAIN notes : notes[c].github_pr_number \in merged

\* C25: in a batch of several actions, a failure while processing one commit
\* is reported for that commit and the remaining actions stay to be
\* processed; the completion counts include only the actions that succeeded.
C25_BatchGoesOnAfterFailure ==
    [][pending # <<>>
       => LET a == Head(pending)
              ok == Returned(last'.stage)
              new == a.kind = "NewCommit"
          IN  /\ pending' = Tail(pending)
              /\ last'.commit = ActionCommit(a)
              /\ last'.errors = last.errors + (IF ok THEN 0 ELSE 1)
              /\ last'.new_branches
                   = last.new_branches + (IF new /\ ok THEN 1 ELSE 0)
              /\ last'.incremental_updates
                   = last.incremental_updates + (IF ~new /\ ok THEN 1 ELSE 0)
              /\ ok => (last'.stage = "skipped"
                        \/ ActionCommit(a) \in DOMAIN notes')]_vars

C25_Witness ==
    /\ pending = <<>>
    /\ last.op \in {"create_local", "create_remote"}
    /\ last.stage = "done"
    /\ last.errors = 1
    /\ last.new_branches = 1
    /\ last.incremental_updates = 0
    /\ \E c \in DOMAIN commits : c # last.commit /\ c \notin DOMAIN notes

\* C26: when the gateway rejects the creation of the PR for the commit being
\* processed, the diff command finishes with a failure outcome, not success.
C26_RejectedCreateFailsCommand ==
    (last.op = "create_remote" /\ last.stage = "create_pr"
       /\ last.exit # "none")
    => last.exit = "Err"

\* C27: operations that need the remote backend fail when credentials are
\* missing and leave branches and records unchanged (land, and remote-mode
\* create or update that builds its own gateway client), while a local-only
\* create still succeeds without credentials.
C27_MissingCredentials ==
    [][/\ (last'.op \in {"create_remote", "incr_remote"} /\ ~last'.creds)
          => /\ last'.stage = "client"
             /\ last'.errors = last.errors + 1
             /\ UNCHANGED <<commits, branches, remote, notes, createCalls,
                            updateCalls>>
       /\ (last'.op = "land" /\ ~last'.creds)
          => /\ last'.stage = "token"
             /\ UNCHANGED <<commits, branches, remote, notes, createCalls,
                            updateCalls>>
       /\ (last'.op = "create_local" /\ ~last'.creds)
          => /\ last'.stage = "done"
             /\ last'.commit \in DOMAIN notes'
             /\ notes'[last'.commit].pr_branch_name \in DOMAIN branches']_vars

C27_Witness ==
    /\ last.op = "create_local"
    /\ ~last.creds
    /\ last.stage = "done"
    /\ ~last.had
    /\ last.commit \in DOMAIN notes
    /\ notes[last.commit].status = "BranchCreated"

\* the branch names the tool has produced: those of the NewCommit actions
\* waiting to be applied and those of the records
ProducedNames ==
    {pending[i].potential_branch_name :
        i \in {j \in DOMAIN pending : pending[j].kind = "NewCommit"}}
    \cup {notes[c].pr_branch_name : c \in DOMAIN notes}

SegmentChars == Range(LowerSeq) \cup Range(DigitSeq) \cup {"-"}
AlphaNumeric == Range(LowerSeq) \cup Range(UpperSeq) \cup Range(DigitSeq)

\* what follows "gitx/{operator}/" in a produced name
TitleSegment(name) ==
    SubSeq(name, Len(GITX_PREFIX) + Len(get_git_username) + 2, Len(name))

\* C28: for every commit message the title segment of the derived branch name
\* has 1 to 50 characters, all in [a-z0-9-], with no leading, trailing or
\* consecutive hyphen; a message whose first line is empty or has no
\* alphanumeric character yields the title "untitled".
C28_TitleSegmentShape ==
    \A name \in ProducedNames :
       LET t == TitleSegment(name)
       IN  /\ Len(t) \in 1..MaxTitleLen
           /\ Range(t) \subseteq SegmentChars
           /\ t[1] # "-"
           /\ t[Len(t)] # "-"
           /\ ~HasDoubleHyphen(t)
           /\ (Range(FirstLine(commits[1].message)) \cap AlphaNumeric = {})
              => t = UNTITLED

C28_Witness ==
    /\ last.op = "create_local"
    /\ last.stage = "done"
    /\ Len(FirstLine(commits[1].message)) > MaxTitleLen
    /\ 1 \in DOMAIN notes
    /\ Len(TitleSegment(notes[1].pr_branch_name)) < MaxTitleLen
    /\ notes[1].pr_branch_name \in DOMAIN branches

\* C29: every branch name produced for a NewCommit has exactly three path
\* segments gitx/{operator}/{title}, the operator segment matching [a-z0-9-]*
\* whatever the configured user name is.
C29_OperatorSegmentShape ==
    \A name \in ProducedNames :
       LET rest == SubSeq(name, Len(GITX_PREFIX) + 1, Len(name))
           slashes == {i \in DOMAIN name : name[i] = "/"}
           operator == SubSeq(rest, 1,
                              (CHOOSE i \in DOMAIN rest :
                                  /\ rest[i] = "/"
                                  /\ \A j \in 1..(i - 1) : rest[j] # "/") - 1)
       IN  /\ SubSeq(name, 1, Len(GITX_PREFIX)) = GITX_PREFIX
           /\ Cardinality(slashes) = 2
           /\ Range(operator) \subseteq SegmentChars

\* C30: two distinct tracked commits never share a branch name: no two
\* records that the tool created for different commits (each anchored at its
\* own commit) carry the same branch name, also when the commits' messages
\* have the same first line.
C30_BranchNamesUnique ==
    \A c, d \in DOMAIN notes :
       (c # d /\ TrackedCurrent(c) /\ TrackedCurrent(d))
       => notes[c].pr_branch_name # notes[d].pr_branch_name


\* the step of handle_diff that applies a NewCommit with --github
RemoteCreateStep ==
    /\ pending # <<>>
    /\ pending' = Tail(pending)
    /\ last'.op = "create_remote"

FirstWritten(l) == l.trace[IF l.had THEN 2 ELSE 1]

\* C31: in every remote-mode create the pull request is opened only after the
\* push has put the branch on the remote and a record with status
\* BranchCreated has been stored; the record gets its PR number only after
\* the pull request was opened, and the local branch is deleted only after
\* that write.
C31_RemoteCreateOrder ==
    [][RemoteCreateStep
       => LET c == Head(pending).id
              name == Head(pending).potential_branch_name
              called == createCalls' # createCalls
              numbered == /\ c \in DOMAIN notes'
                          /\ notes'[c].github_pr_number # 0
              deleted == /\ last'.stage \notin {"client", "branch"}
                         /\ name \notin DOMAIN branches'
          IN  /\ called => /\ name \in DOMAIN remote'
                           /\ remote'[name] = c
                           /\ Len(last'.trace) > (IF last'.had THEN 1 ELSE 0)
                           /\ FirstWritten(last').status = "BranchCreated"
                           /\ FirstWritten(last').github_pr_number = 0
                           /\ c \in DOMAIN notes'
              /\ numbered => /\ called
                             /\ notes'[c].github_pr_number
                                = createCalls'[Len(createCalls')].number
              /\ deleted => numbered]_vars

C31_Witness ==
    /\ last.op = "create_remote"
    /\ last.stage = "update"
    /\ createCalls # <<>>
    /\ createCalls[Len(createCalls)].commit = last.commit
    /\ createCalls[Len(createCalls)].branch \in DOMAIN remote
    /\ last.commit \in DOMAIN notes
    /\ notes[last.commit].status = "BranchCreated"

\* C32: when a step after the local branch creation fails in a remote-mode
\* create, no later step takes effect and nothing done before is undone: the
\* local branch stays, and so do the pushed branch, the stored record and the
\* opened pull request as far as the create had come; the error is returned.
C32_RemoteCreateNoRollback ==
    [][RemoteCreateStep
       => LET c == Head(pending).id
              name == Head(pending).potential_branch_name
              stage == last'.stage
              pushed == name \in DOMAIN remote' /\ remote'[name] = c
              stored == c \in DOMAIN notes' /\ notes'[c].pr_branch_name = name
              called == /\ Len(createCalls') = Len(createCalls) + 1
                        /\ createCalls'[Len(createCalls')].commit = c
          IN  stage \in {"push", "store", "create_pr", "update", "delete"}
              => /\ last'.errors = last.errors + 1
                 /\ name \in DOMAIN branches' /\ branches'[name] = c
                 /\ stage = "push"
                    => remote' = remote /\ notes' = notes
                       /\ createCalls' = createCalls
                 /\ stage = "store"
                    => pushed /\ notes' = notes /\ createCalls' = createCalls
                 /\ stage = "create_pr"
                    => /\ pushed /\ stored
                       /\ notes'[c].status = "BranchCreated"
                       /\ notes'[c].github_pr_number = 0
                       /\ createCalls' = createCalls
                 /\ stage = "update"
                    => /\ pushed /\ stored /\ called
                       /\ notes'[c].status = "BranchCreated"
                       /\ notes'[c].github_pr_number = 0
                 /\ stage = "delete"
                    => /\ pushed /\ stored /\ called
                       /\ notes'[c].status = "PRCreated"
                       /\ notes'[c].github_pr_number
                          = createCalls'[Len(createCalls')].number]_vars

C32_Witness ==
    /\ last.op = "create_remote"
    /\ last.stage = "create_pr"
    /\ last.injected
    /\ last.commit \in DOMAIN notes
    /\ notes[last.commit].status = "BranchCreated"
    /\ notes[last.commit].github_pr_number = 0
    /\ notes[last.commit].pr_branch_name \in DOMAIN branches
    /\ notes[last.commit].pr_branch_name \in DOMAIN remote
    /\ last.errors >= 1


\* the tip of a PR branch: the local branch if there is one, else the branch
\* on the remote
BranchTip(name) ==
    IF name \in DOMAIN branches THEN branches[name]
    ELSE IF name \in DOMAIN remote THEN remote[name]
    ELSE 0

\* C33: every incremental commit, in local and in remote mode, has as its
\* parent the tip the PR branch had just before it, so that after k updates
\* the branch's history is the original tip followed by the k incremental
\* commits in order, and no remote push is rejected as a non-fast-forward.
C33_IncrementalChain ==
    [][(/\ pending # <<>>
        /\ pending' = Tail(pending)
        /\ last'.op \in {"incr_local", "incr_remote"}
        /\ Len(commits') = Len(commits) + 1
        /\ BranchTip(Head(pending).metadata.pr_branch_name) # 0)
       => /\ commits'[Len(commits')].kind = "incremental"
          /\ commits'[Len(commits')].parent
             = BranchTip(Head(pending).metadata.pr_branch_name)
          /\ last'.stage = "push" => last'.injected]_vars


\* C34: during land, a failure to delete a merged PR's remote branch does not
\* stop that PR's cleanup, and neither does a local branch that does not
\* exist: in every state, a land in which the remote deletion fails still
\* sets the record of every merged PR to PRMerged and counts every one of
\* them as cleaned up, none as failed, whether or not their local branches
\* exist.
C34_RemoteDeleteFailureTolerated ==
    LET r == land_merged_prs(TRUE, FALSE, "delete_remote", branches, remote,
                             notes, merged)
    IN  /\ r.cleaned_up = Cardinality(MergedRecords)
        /\ r.failed = 0
        /\ \A c \in MergedRecords : r.notes[c].status = "PRMerged"


\* C35: classifying a repository whose primary branch has no commits yet (the
\* history window is empty) returns an empty action list, not an error.
C35_EmptyHistoryIsEmptyList ==
    (run.active /\ commits = <<>>) => (run.ok /\ run.found = <<>>)


AnchoredAtKey ==
    /\ \A c \in DOMAIN notes : notes[c].original_commit_id = c
    /\ \A i \in DOMAIN run.found : run.found[i][1] # "IncrementalUpdate"
    /\ \A i \in DOMAIN pending : pending[i].kind # "IncrementalUpdate"

\* C36 as stated: in every reachable state every record stored under a commit
\* has that commit as its anchor, and so no classification emits an
\* IncrementalUpdate.
C36_AnchorIsKey == AnchoredAtKey

\* C36, amended: where git does not copy the notes of a rewritten commit to
\* its successor (notes.rewriteRef unset), every record stored under a commit
\* has that commit as its anchor, and no classification emits an
\* IncrementalUpdate, also for an amended commit whose predecessor was
\* tracked.
C36_AnchorIsKeyWithoutRewrite == ~rewriteNotes => AnchoredAtKey

C36_Witness ==
    /\ ~rewriteNotes
    /\ run.active /\ run.ok
    /\ run.found # <<>>
    /\ PrimaryHead \in DOMAIN commits
    /\ commits[PrimaryHead].amends_tracked
    /\ commits[PrimaryHead].amends \in DOMAIN notes


\* C37: in every reachable state a record has a PR number exactly when its
\* status is PRCreated or PRMerged; a BranchCreated record never has one.
C37_NumberIffPrStatus ==
    \A c \in DOMAIN notes :
       /\ notes[c].github_pr_number # 0
          <=> notes[c].status \in {"PRCreated", "PRMerged"}
       /\ notes[c].status = "BranchCreated" => notes[c].github_pr_number = 0

C37_Witness ==
    \E c, d \in DOMAIN notes :
       /\ notes[c].status = "PRCreated"
       /\ notes[c].github_pr_number >= FirstPrNumber
       /\ notes[d].status = "BranchCreated"
       /\ notes[d].github_pr_number = 0


\* C38: after every action a classification returned has been applied
\* successfully, in local or in remote mode, and with the history unchanged,
\* classifying the same window again returns the empty list.
C38_AppliedThenEmpty ==
    (RunComplete /\ run.found # <<>> /\ last.errors = 0)
    => LET res == get_commits_needing_processing_impl(~run.all, notes,
                                                      branches)
       IN  res.ok /\ res.updates = <<>>


RaceOver == \A p \in Runs : procs[p].pc \in {"done", "failed"}

\* C39: when local-only create runs for the same untracked commit interleave
\* in any order, a record once written is never overwritten: only one run's
\* write succeeds, and when all runs are over the commit has exactly one
\* record, BranchCreated and anchored at the commit, and its branch exists
\* once, pointing at the commit.
C39_RacingCreatesOneRecord ==
    /\ [][\A c \in DOMAIN notes : c \in DOMAIN notes' /\ notes'[c] = notes[c]]_vars
    /\ [](Cardinality({p \in Runs : procs[p].stored}) <= 1)
    /\ [](\A p \in Runs :
            (RaceOver /\ procs[p].a # <<>>)
            => LET c == procs[p].a.id
                   name == procs[p].a.potential_branch_name
               IN  /\ DOMAIN notes = {c}
                   /\ notes[c].status = "BranchCreated"
                   /\ notes[c].original_commit_id = c
                   /\ notes[c].pr_branch_name = name
                   /\ name \in DOMAIN branches
                   /\ branches[name] = c)

C39_Witness ==
    /\ RaceOver
    /\ \E p, q \in Runs :
          /\ procs[p].stored
          /\ procs[q].pc = "failed"
          /\ procs[q].commit_metadata # <<>>
          /\ procs[q].a = procs[p].a
          /\ procs[p].a.id \in DOMAIN notes


====
